---- MODULE Spec2Model ----
(***************************************************************************)
(* gowiki: a wiki served over HTTP, pages stored as data/<Title>.txt.      *)
(* Model of src/gowiki.go.  Strings that the program inspects character by *)
(* character (request paths, titles) are sequences of one-character        *)
(* strings; page bodies are sequences of bytes.                            *)
(***************************************************************************)
EXTENDS Integers, Sequences, FiniteSets, TLC

VARIABLES store, dataDir, rec, lastSaved, savedOk

vars == <<store, dataDir, rec, lastSaved, savedOk>>

(***************************************************************************)
(* Bounds                                                                  *)
(***************************************************************************)
MaxSuffixLen == 2       \* length of the free part of a request path
MaxHops == 3            \* redirects a client is willing to follow

(***************************************************************************)
(* Characters and fixed strings                                            *)
(***************************************************************************)
Lower == {"a","b","c","d","e","f","g","h","i","j","k","l","m",
          "n","o","p","q","r","s","t","u","v","w","x","y","z"}
Upper == {"A","B","C","D","E","F","G","H","I","J","K","L","M",
          "N","O","P","Q","R","S","T","U","V","W","X","Y","Z"}
Digit == {"0","1","2","3","4","5","6","7","8","9"}

\* the character class [a-zA-Z0-9] of validPath
Alnum == Lower \cup Upper \cup Digit

\* characters the free part of a request path is built from
Alphabet == {"a", "-", "/", "."}

Slash == <<"/">>
StrView == <<"v","i","e","w">>
StrEdit == <<"e","d","i","t">>
StrSave == <<"s","a","v","e">>
StrFoo == <<"f","o","o">>
FrontPage == <<"F","r","o","n","t","P","a","g","e">>

ViewPrefix == Slash \o StrView \o Slash
EditPrefix == Slash \o StrEdit \o Slash
SavePrefix == Slash \o StrSave \o Slash
FooPrefix == Slash \o StrFoo \o Slash

\* "/view/FrontPage", the literal of rootHandler
RootTarget == ViewPrefix \o FrontPage

Methods == {"GET", "POST", "CONNECT"}

\* request bodies (form field "body"): empty, short, long
BodyA == <<1, 1>>
BodyB == <<2>>
Bodies == {<<>>, BodyA, BodyB}

RECURSIVE SeqsUpTo(_, _)
SeqsUpTo(S, n) ==
    IF n = 0 THEN {<<>>}
    ELSE LET shorter == SeqsUpTo(S, n - 1)
         IN  shorter \cup {Append(s, x) : s \in shorter, x \in S}

Suffixes == SeqsUpTo(Alphabet, MaxSuffixLen)

IsPrefix(s, t) == Len(s) <= Len(t) /\ SubSeq(t, 1, Len(s)) = s

(***************************************************************************)
(* validPath = ^/(edit|save|view)/([a-zA-Z0-9]+)$                          *)
(***************************************************************************)
\* faulty variant: the title group is [^/]+ instead of [a-zA-Z0-9]+
validPathAnyChar(p) ==
    /\ Len(p) >= 7
    /\ p[1] = "/"
    /\ SubSeq(p, 2, 5) \in {<<"e","d","i","t">>, <<"s","a","v","e">>, <<"v","i","e","w">>}
    /\ p[6] = "/"
    /\ \A i \in 7..Len(p) : p[i] # "/"

\* FindStringSubmatch(path) # nil
validPath(p) ==
    /\ Len(p) >= 7
    /\ p[1] = "/"
    /\ SubSeq(p, 2, 5) \in {StrEdit, StrSave, StrView}
    /\ p[6] = "/"
    /\ \A i \in 7..Len(p) : p[i] \in Alnum

\* m[2], the second capture group
SubmatchTitle(p) == SubSeq(p, 7, Len(p))

IsAlnumTitle(t) == Len(t) >= 1 /\ \A i \in 1..Len(t) : t[i] \in Alnum

(***************************************************************************)
(* net/http.ServeMux as main registers it                                  *)
(***************************************************************************)
\* the patterns of main, with the handler each is bound to
Patterns == {Slash, ViewPrefix, EditPrefix, SavePrefix}

PatternHandler(pat) ==
    IF pat = Slash THEN "root"
    ELSE IF pat = ViewPrefix THEN "view"
    ELSE IF pat = EditPrefix THEN "edit"
    ELSE "save"

\* path.Clean on a rooted path: one segment pushed on the stack of segments
PushSeg(stack, seg) ==
    IF seg = <<>> \/ seg = <<".">> THEN stack
    ELSE IF seg = <<".", ".">>
         THEN IF stack = <<>> THEN stack ELSE SubSeq(stack, 1, Len(stack) - 1)
         ELSE Append(stack, seg)

RECURSIVE CleanFrom(_, _, _, _)
CleanFrom(p, i, cur, stack) ==
    IF i > Len(p) THEN PushSeg(stack, cur)
    ELSE IF p[i] = "/" THEN CleanFrom(p, i + 1, <<>>, PushSeg(stack, cur))
    ELSE CleanFrom(p, i + 1, Append(cur, p[i]), stack)

RECURSIVE JoinSegs(_)
JoinSegs(stack) ==
    IF stack = <<>> THEN <<>>
    ELSE Slash \o Head(stack) \o JoinSegs(Tail(stack))

PathClean(p) ==
    LET segs == CleanFrom(p, 1, <<>>, <<>>)
    IN  IF segs = <<>> THEN Slash ELSE JoinSegs(segs)

\* cleanPath of net/http: path.Clean, trailing slash kept
cleanPath(p) ==
    IF p = <<>> THEN Slash
    ELSE LET q == IF p[1] = "/" THEN p ELSE Slash \o p
             np == PathClean(q)
         IN  IF q[Len(q)] = "/" /\ np # Slash THEN np \o Slash ELSE np

\* /tree is not registered and /tree/ is
redirectToPathSlash(p) == p \notin Patterns /\ (p \o Slash) \in Patterns

\* the longest registered pattern that is a prefix of the path
MuxMatch(p) ==
    CHOOSE pat \in Patterns :
        /\ IsPrefix(pat, p)
        /\ \A q \in Patterns : IsPrefix(q, p) => Len(q) <= Len(pat)

\* ServeMux.Handler: a 301 of the mux itself, or the registered handler
ServeMux(m, p) ==
    IF m = "CONNECT"
    THEN IF redirectToPathSlash(p)
         THEN [kind |-> "redirect", handler |-> "mux", loc |-> p \o Slash]
         ELSE [kind |-> "handler", handler |-> PatternHandler(MuxMatch(p)), loc |-> <<>>]
    ELSE LET cp == cleanPath(p)
         IN  IF redirectToPathSlash(cp)
             THEN [kind |-> "redirect", handler |-> "mux", loc |-> cp \o Slash]
             ELSE IF cp # p
             THEN [kind |-> "redirect", handler |-> "mux", loc |-> cp]
             ELSE [kind |-> "handler", handler |-> PatternHandler(MuxMatch(p)), loc |-> <<>>]

\* the paths of the requests the model serves
Prefixes == {Slash, ViewPrefix, EditPrefix, SavePrefix, FooPrefix}

AllPaths ==
    {pre \o suf : pre \in Prefixes, suf \in Suffixes}
    \cup {Slash \o StrView, Slash \o StrFoo}
    \cup {pre \o FrontPage : pre \in {ViewPrefix, EditPrefix, SavePrefix}}

\* the mux's answer for every request, computed once
MuxTable == [m \in Methods, p \in AllPaths |-> ServeMux(m, p)]

Route(m, p) == MuxTable[m, p]

(***************************************************************************)
(* The Page Store: the files data/<name>.txt                               *)
(***************************************************************************)
\* every string that can be handed to loadPage or Page.save as a title
Names == Suffixes \cup {FrontPage}

\* the names the path validator lets through
AllTitles == {t \in Names : IsAlnumTitle(t)}

\* store maps the name of each existing file to its bytes
Exists(name) == name \in DOMAIN store

\* the directory with the file `name` set to `data`
WithFile(dir, name, data) ==
    [n \in DOMAIN dir \cup {name} |-> IF n = name THEN data ELSE dir[n]]

\* Page{Title, Body}
Page(t, b) == [Title |-> t, Body |-> b]
NoPage == [Title |-> <<>>, Body |-> <<>>]

\* ioutil.ReadFile inside loadPage: fails when the file (or data/) is absent
loadPage(title) ==
    IF Exists(title)
    THEN [err |-> FALSE, page |-> Page(title, store[title])]
    ELSE [err |-> TRUE, page |-> NoPage]

\* faulty variant: the file is opened without O_TRUNC
OpenNoTrunc(dir, name) ==
    IF name \in DOMAIN dir THEN dir ELSE WithFile(dir, name, <<>>)

\* os.OpenFile(name, O_WRONLY|O_CREATE|O_TRUNC, 0600): the file exists and is empty
OpenTrunc(dir, name) == WithFile(dir, name, <<>>)

\* f.Write(b) on a descriptor at offset 0: overwrites in place, keeps what lies beyond
WriteAt(dir, name, b) ==
    WithFile(dir, name, b \o SubSeq(dir[name], Len(b) + 1, Len(dir[name])))

(***************************************************************************)
(* http.ResponseWriter                                                     *)
(***************************************************************************)
NewWriter == [wroteHeader |-> FALSE, status |-> 0, location |-> <<>>, out |-> <<>>]

Chunk(k, name, p) == [k |-> k, name |-> name, title |-> p.Title, body |-> p.Body]

\* the first WriteHeader fixes the status; a later one is ignored
WriteHeader(w, code) ==
    IF w.wroteHeader THEN w
    ELSE [w EXCEPT !.wroteHeader = TRUE, !.status = code]

\* Write sends an implicit 200 header when none was written yet
Write(w, chunk) ==
    LET w1 == WriteHeader(w, 200)
    IN  [w1 EXCEPT !.out = Append(@, chunk)]

\* w.Header().Set("Location", ...): headers are frozen once written
SetLocation(w, loc) ==
    IF w.wroteHeader THEN w ELSE [w EXCEPT !.location = loc]

\* http.Error(w, msg, code)
Error(w, code) == Write(WriteHeader(w, code), Chunk("error", "", NoPage))

\* http.NotFound(w, r)
NotFound(w) == Error(w, 404)

\* http.Redirect(w, r, url, code); the url of every caller is absolute and in
\* canonical form already, and the short HTML note sent after the header is
\* not listed in out
Redirect(w, loc, code) == WriteHeader(SetLocation(w, loc), code)

(***************************************************************************)
(* Templates                                                               *)
(***************************************************************************)
\* the templates parsed at startup
templates == {"edit.html", "view.html"}

TemplateFile(tmpl) == IF tmpl = "view" THEN "view.html" ELSE "edit.html"

\* how an execution can go: to the end, failing before any output, failing after some
ExecFaults == {"none", "early", "late"}

\* templates.ExecuteTemplate(w, name, p)
ExecuteTemplate(w, name, p, fault) ==
    IF name \notin templates \/ fault = "early" THEN [w |-> w, err |-> TRUE]
    ELSE IF fault = "late" THEN [w |-> Write(w, Chunk("part", name, p)), err |-> TRUE]
    ELSE [w |-> Write(w, Chunk("html", name, p)), err |-> FALSE]

renderTemplate(w, tmpl, p, fault) ==
    LET r == ExecuteTemplate(w, TemplateFile(tmpl), p, fault)
    IN  IF r.err THEN Error(r.w, 500) ELSE r.w

(***************************************************************************)
(* Handlers                                                                *)
(***************************************************************************)
\* faulty variant: the root redirects to itself
rootHandlerLoops(w) == Redirect(w, Slash, 302)

rootHandler(w) == Redirect(w, RootTarget, 302)

\* faulty variant: a missing page is rendered as an empty page instead of redirected
viewHandlerPlaceholder(w, title, fault) ==
    LET l == loadPage(title)
        p == IF l.err THEN Page(title, <<>>) ELSE l.page
    IN  renderTemplate(w, "view", p, fault)

viewHandler(w, title, fault) ==
    LET l == loadPage(title)
    IN  IF l.err THEN Redirect(w, EditPrefix \o title, 302)
        ELSE renderTemplate(w, "view", l.page, fault)

\* faulty variant: a missing page is redirected to its view instead of rendered empty
editHandlerRedirects(w, title, fault) ==
    LET l == loadPage(title)
    IN  IF l.err THEN Redirect(w, ViewPrefix \o title, 302)
        ELSE renderTemplate(w, "edit", l.page, fault)

editHandler(w, title, fault) ==
    LET l == loadPage(title)
        p == IF l.err THEN Page(title, <<>>) ELSE l.page
    IN  renderTemplate(w, "edit", p, fault)

\* faulty variant: the error of p.save() is dropped
saveResponseIgnoresErr(w, title, err) == Redirect(w, ViewPrefix \o title, 302)

\* the tail of saveHandler, once p.save() has returned
saveResponse(w, title, err) ==
    IF err THEN Error(w, 500) ELSE Redirect(w, ViewPrefix \o title, 302)

(***************************************************************************)
(* Requests                                                                *)
(***************************************************************************)
Clients == {"c1", "c2"}

Idle ==
    [pc |-> "idle", method |-> "", path |-> <<>>, hops |-> 0, handler |-> "",
     title |-> <<>>, body |-> <<>>, w |-> NewWriter, loads |-> 0, saves |-> 0,
     overlap |-> FALSE, saveErr |-> FALSE]

\* lastSaved without / with an entry for title
Forget(ls, title) == [t \in DOMAIN ls \ {title} |-> ls[t]]
Remember(ls, title, b) == [t \in DOMAIN ls \cup {title} |-> IF t = title THEN b ELSE ls[t]]

\* a finished request that touched no file beyond `loads` reads
Done(m, p, h, handler, title, w, loads) ==
    [pc |-> "done", method |-> m, path |-> p, hops |-> h, handler |-> handler,
     title |-> title, body |-> <<>>, w |-> w, loads |-> loads, saves |-> 0,
     overlap |-> FALSE, saveErr |-> FALSE]

Saving(c) == rec[c].pc \in {"opened", "written"}

\* the mux answers itself: 301 to the cleaned path or to the path with a slash
MuxRedirect(c, m, p, h) ==
    /\ Route(m, p).kind = "redirect"
    /\ rec' = [rec EXCEPT ![c] =
                 Done(m, p, h, "mux", <<>>, Redirect(NewWriter, Route(m, p).loc, 301), 0)]
    /\ UNCHANGED <<store, dataDir, lastSaved, savedOk>>

RootRequest(c, m, p, h) ==
    /\ Route(m, p).kind = "handler"
    /\ Route(m, p).handler = "root"
    /\ rec' = [rec EXCEPT ![c] = Done(m, p, h, "root", <<>>, rootHandler(NewWriter), 0)]
    /\ UNCHANGED <<store, dataDir, lastSaved, savedOk>>

\* the path reaches a handler made by makeHandler
Wrapped(m, p) ==
    /\ Route(m, p).kind = "handler"
    /\ Route(m, p).handler \in {"view", "edit", "save"}

\* makeHandler: m == nil
InvalidPath(c, m, p, h) ==
    /\ Wrapped(m, p)
    /\ ~validPath(p)
    /\ rec' = [rec EXCEPT ![c] = Done(m, p, h, "notfound", <<>>, NotFound(NewWriter), 0)]
    /\ UNCHANGED <<store, dataDir, lastSaved, savedOk>>

ViewRequest(c, m, p, h) ==
    /\ Wrapped(m, p)
    /\ Route(m, p).handler = "view"
    /\ validPath(p)
    /\ \E fault \in ExecFaults :
         rec' = [rec EXCEPT ![c] =
                   Done(m, p, h, "view", SubmatchTitle(p),
                        viewHandler(NewWriter, SubmatchTitle(p), fault), 1)]
    /\ UNCHANGED <<store, dataDir, lastSaved, savedOk>>

\* faulty variant: editing a missing page creates its file
EditRequestCreates(c, m, p, h) ==
    /\ Wrapped(m, p)
    /\ Route(m, p).handler = "edit"
    /\ validPath(p)
    /\ \E fault \in ExecFaults :
         rec' = [rec EXCEPT ![c] =
                   Done(m, p, h, "edit", SubmatchTitle(p),
                        renderTemplate(NewWriter, "edit",
                            Page(SubmatchTitle(p),
                                 IF Exists(SubmatchTitle(p)) THEN store[SubmatchTitle(p)]
                                 ELSE <<>>), fault), 1)]
    /\ store' = IF Exists(SubmatchTitle(p)) THEN store
                ELSE WithFile(store, SubmatchTitle(p), <<>>)
    /\ UNCHANGED <<dataDir, lastSaved, savedOk>>

EditRequest(c, m, p, h) ==
    /\ Wrapped(m, p)
    /\ Route(m, p).handler = "edit"
    /\ validPath(p)
    /\ \E fault \in ExecFaults :
         rec' = [rec EXCEPT ![c] =
                   Done(m, p, h, "edit", SubmatchTitle(p),
                        editHandler(NewWriter, SubmatchTitle(p), fault), 1)]
    /\ UNCHANGED <<store, dataDir, lastSaved, savedOk>>

\* saveHandler up to the open inside ioutil.WriteFile
SaveRequest(c, m, p, h) ==
    /\ Wrapped(m, p)
    /\ Route(m, p).handler = "save"
    /\ validPath(p)
    /\ \E body \in Bodies :
         LET title == SubmatchTitle(p)
             others == {d \in Clients \ {c} : Saving(d) /\ rec[d].title = title}
             r == [pc |-> "opened", method |-> m, path |-> p, hops |-> h,
                   handler |-> "save", title |-> title, body |-> body,
                   w |-> NewWriter, loads |-> 0, saves |-> 1,
                   overlap |-> others # {}, saveErr |-> FALSE]
         IN  IF dataDir
             THEN /\ store' = OpenTrunc(store, title)
                  /\ rec' = [d \in Clients |->
                               IF d = c THEN r
                               ELSE IF d \in others THEN [rec[d] EXCEPT !.overlap = TRUE]
                               ELSE rec[d]]
                  /\ lastSaved' = Forget(lastSaved, title)
             ELSE /\ rec' = [rec EXCEPT ![c] =
                               [r EXCEPT !.pc = "done", !.saveErr = TRUE,
                                         !.w = saveResponse(NewWriter, title, TRUE)]]
                  /\ UNCHANGED <<store, lastSaved>>
    /\ UNCHANGED <<dataDir, savedOk>>

\* f.Write(data): all of it, or a short write that fails
SaveWrite(c) ==
    /\ rec[c].pc = "opened"
    /\ \E n \in 0..Len(rec[c].body) :
         /\ store' = WriteAt(store, rec[c].title, SubSeq(rec[c].body, 1, n))
         /\ rec' = [rec EXCEPT ![c].pc = "written",
                               ![c].saveErr = (n < Len(rec[c].body))]
    /\ UNCHANGED <<dataDir, lastSaved, savedOk>>

\* f.Close(), the return of p.save() and the rest of saveHandler
SaveClose(c) ==
    /\ rec[c].pc = "written"
    /\ rec' = [rec EXCEPT ![c].pc = "done",
                          ![c].w = saveResponse(NewWriter, rec[c].title, rec[c].saveErr)]
    /\ lastSaved' = IF ~rec[c].saveErr /\ ~rec[c].overlap
                    THEN Remember(lastSaved, rec[c].title, rec[c].body)
                    ELSE Forget(lastSaved, rec[c].title)
    /\ savedOk' = IF rec[c].saveErr THEN savedOk ELSE savedOk \cup {rec[c].title}
    /\ UNCHANGED <<store, dataDir>>

\* ServeHTTP of the default mux for one request
Request(c, m, p, h) ==
    \/ MuxRedirect(c, m, p, h)
    \/ RootRequest(c, m, p, h)
    \/ InvalidPath(c, m, p, h)
    \/ ViewRequest(c, m, p, h)
    \/ EditRequest(c, m, p, h)
    \/ SaveRequest(c, m, p, h)

\* the client follows a handler's 302 with a GET of its Location
Follow(c) ==
    /\ rec[c].pc = "done"
    /\ rec[c].w.status = 302
    /\ rec[c].hops < MaxHops
    /\ Request(c, "GET", rec[c].w.location, rec[c].hops + 1)

(***************************************************************************)
(* Spec: two clients, the requests of the interface table, any interleaving*)
(***************************************************************************)
Bad == <<"-">>
TitleA == <<"a">>

Inputs ==
    {<<"GET", Slash>>, <<"GET", Slash \o Bad>>, <<"GET", ViewPrefix \o Bad>>}
    \cup {<<"GET", ViewPrefix \o t>> : t \in {TitleA, FrontPage}}
    \cup {<<"GET", EditPrefix \o t>> : t \in {TitleA, FrontPage}}
    \cup {<<"POST", SavePrefix \o t>> : t \in {TitleA, FrontPage}}

SaveInputs == {in \in Inputs : in[1] = "POST"}

\* c1 issues any request and follows redirects; c2 is a concurrent writer
InputsOf(c) == IF c = "c1" THEN Inputs ELSE SaveInputs

NewRequest(c) ==
    /\ rec[c].pc \in {"idle", "done"}
    /\ \E in \in InputsOf(c) : Request(c, in[1], in[2], 0)

Init ==
    /\ dataDir \in BOOLEAN
    /\ store = <<>>
    /\ rec = [c \in Clients |-> Idle]
    /\ lastSaved = <<>>
    /\ savedOk = {}

Next ==
    \/ \E c \in Clients :
          \/ NewRequest(c)
          \/ SaveWrite(c)
          \/ SaveClose(c)
    \/ Follow("c1")

Spec == Init /\ [][Next]_vars

(***************************************************************************)
(* SpecRoute: one request of any method and path against any store         *)
(***************************************************************************)
RouteRequest(c) ==
    /\ rec[c].pc = "idle"
    /\ \E m \in Methods, p \in AllPaths : Request(c, m, p, 0)

InitRoute ==
    /\ dataDir \in BOOLEAN
    /\ \E present \in SUBSET AllTitles :
         /\ present # {} => dataDir
         /\ store = [t \in present |-> BodyA]
    /\ rec = [c \in Clients |-> Idle]
    /\ lastSaved = <<>>
    /\ savedOk = {}

NextRoute ==
    \/ RouteRequest("c1")
    \/ Follow("c1")
    \/ SaveWrite("c1")
    \/ SaveClose("c1")

SpecRoute == InitRoute /\ [][NextRoute]_vars

(***************************************************************************)
(* Properties                                                              *)
(***************************************************************************)
\* the step just taken finished (or, for a save, started) a request of c in handler h
Served(c, h) == rec'[c] # rec[c] /\ rec'[c].handler = h

\* the path holds a ".." segment
HasTraversal(p) == \E i \in 1..(Len(p) - 1) : p[i] = "." /\ p[i + 1] = "."

ErrorChunk == Chunk("error", "", NoPage)

\* the output shows that template execution failed
ExecFailed(w) == w.out # <<>> /\ w.out[Len(w.out)] = ErrorChunk

\* every part of a template's output in w comes from template `name` run on page pg
RendersOnly(w, name, pg) ==
    \A i \in 1..Len(w.out) :
        w.out[i].k \in {"html", "part"} => w.out[i] = Chunk(w.out[i].k, name, pg)

\* C1: every title makeHandler hands to viewHandler, editHandler or saveHandler,
\* and every name a file is loaded from or saved to, is a non-empty string over
\* [a-zA-Z0-9]; a request whose path holds a ".." segment never loads or saves.
C1_TitlesAlphanumeric ==
    /\ \A c \in Clients :
         /\ rec[c].handler \in {"view", "edit", "save"} => IsAlnumTitle(rec[c].title)
         /\ HasTraversal(rec[c].path) => rec[c].loads = 0 /\ rec[c].saves = 0
    /\ \A n \in DOMAIN store : IsAlnumTitle(n)

\* C1 witness: a traversal path got past the mux to makeHandler and was rejected
C1_Witness ==
    /\ rec["c1"].handler = "notfound"
    /\ HasTraversal(rec["c1"].path)
    /\ rec["c1"].w.status = 404

\* C2: every request whose path is not "/" and does not match validPath is
\* answered 404, whatever its method, without any load or save.  Stated for the
\* requests the mux hands to a handler of main (its own 301 answers to paths
\* that are not in canonical form are left aside).
C2_UnmatchedPathIs404 ==
    \A c \in Clients :
        (/\ rec[c].pc = "done"
         /\ rec[c].handler # "mux"
         /\ rec[c].path # Slash
         /\ ~validPath(rec[c].path))
            => rec[c].w.status = 404 /\ rec[c].loads = 0 /\ rec[c].saves = 0

\* C3: after a successful save to a title that overlapped no other save to it,
\* and until the next save to it starts, loadPage returns exactly the saved body.
C3_SaveThenLoad ==
    \A t \in DOMAIN lastSaved :
        /\ ~loadPage(t).err
        /\ loadPage(t).page = Page(t, lastSaved[t])

\* C3 witness: the long body was saved, then the short one over it, both in full
C3_Witness ==
    /\ TitleA \in DOMAIN lastSaved
    /\ lastSaved[TitleA] = BodyB
    /\ rec["c1"].pc = "done" /\ rec["c1"].handler = "save" /\ rec["c1"].title = TitleA
    /\ rec["c1"].body = BodyB /\ ~rec["c1"].saveErr /\ ~rec["c1"].overlap
    /\ rec["c2"].pc = "done" /\ rec["c2"].handler = "save" /\ rec["c2"].title = TitleA
    /\ rec["c2"].body = BodyA /\ ~rec["c2"].saveErr /\ ~rec["c2"].overlap

\* what viewHandler answers for title t against the files it finds
ViewOutcome(w, t) ==
    IF ~Exists(t)
    THEN w.status = 302 /\ w.location = EditPrefix \o t /\ w.out = <<>>
    ELSE /\ w.status \in {200, 500}
         /\ w.location = <<>>
         /\ w.out # <<>>
         /\ RendersOnly(w, "view.html", Page(t, store[t]))
         /\ (w.status = 500 => w.out = <<ErrorChunk>>)
         /\ (~ExecFailed(w) => w.out = <<Chunk("html", "view.html", Page(t, store[t]))>>)

\* C4: /view/{title} answers 302 to /edit/{title} exactly when the load fails, and
\* otherwise renders view.html with the body stored at that moment; a missing page
\* yields neither an error status nor a rendered placeholder.
C4_ViewRedirectsOrRenders ==
    [][\A c \in Clients : Served(c, "view") => ViewOutcome(rec'[c].w, rec'[c].title)]_vars

\* C4 witness: a view of a missing page was redirected to its edit form
C4_Witness ==
    /\ rec["c1"].handler = "view"
    /\ rec["c1"].title = TitleA
    /\ rec["c1"].w.status = 302
    /\ rec["c1"].w.location = EditPrefix \o TitleA

\* what editHandler answers for title t against the files it finds
EditOutcome(w, t) ==
    LET pg == Page(t, IF Exists(t) THEN store[t] ELSE <<>>)
    IN  /\ w.status \in {200, 500}
        /\ w.location = <<>>
        /\ w.out # <<>>
        /\ RendersOnly(w, "edit.html", pg)
        /\ (w.status = 500 => w.out = <<ErrorChunk>>)
        /\ (~ExecFailed(w) => w.status = 200 /\ w.out = <<Chunk("html", "edit.html", pg)>>)

\* C5: /edit/{title} never redirects and always runs edit.html, on the stored body
\* when the load succeeds and on an empty body with that title when it fails; the
\* status is 200 whenever the template runs to its end.
C5_EditAlwaysRenders ==
    [][\A c \in Clients : Served(c, "edit") => EditOutcome(rec'[c].w, rec'[c].title)]_vars

\* C5 witness: the edit form of a missing page, rendered empty with status 200
C5_Witness ==
    /\ rec["c1"].handler = "edit"
    /\ ~Exists(TitleA)
    /\ rec["c1"].w.status = 200
    /\ rec["c1"].w.out = <<Chunk("html", "edit.html", Page(TitleA, <<>>))>>

\* C6: a save request ends either in 500 with the error text and no redirect (the
\* save failed) or in 302 to /view/{title} (it succeeded), after one write attempt.
C6_SaveOutcome ==
    \A c \in Clients :
        rec[c].handler = "save" =>
            /\ rec[c].saves = 1
            /\ Saving(c) => rec[c].w = NewWriter
            /\ (rec[c].pc = "done" /\ rec[c].saveErr) =>
                   /\ rec[c].w.status = 500
                   /\ rec[c].w.location = <<>>
                   /\ rec[c].w.out = <<ErrorChunk>>
            /\ (rec[c].pc = "done" /\ ~rec[c].saveErr) =>
                   /\ rec[c].w.status = 302
                   /\ rec[c].w.location = ViewPrefix \o rec[c].title
                   /\ rec[c].w.out = <<>>

\* C6 witness: a save whose write came up short ended in 500
C6_Witness ==
    /\ dataDir
    /\ rec["c1"].handler = "save"
    /\ rec["c1"].pc = "done"
    /\ rec["c1"].saveErr
    /\ rec["c1"].w.status = 500

\* both clients' latest saves went to title t, overlapped and succeeded
RacedSaves(t) ==
    \A c \in Clients :
        /\ rec[c].pc = "done" /\ rec[c].handler = "save" /\ rec[c].title = t
        /\ rec[c].overlap /\ ~rec[c].saveErr

\* C7: once two concurrent saves of bodies A and B to one title have both
\* completed, the file holds exactly A or exactly B.
C7_LastWriterWins ==
    \A t \in DOMAIN store :
        RacedSaves(t) => store[t] \in {rec[c].body : c \in Clients}

\* C8: whenever template execution fails, before or after output was written,
\* the status of the response is 500.
C8_RenderFailureIs500 ==
    \A c \in Clients :
        (rec[c].handler \in {"view", "edit"} /\ ExecFailed(rec[c].w))
            => rec[c].w.status = 500

\* file n is the same before and after the step
SameFile(n) ==
    /\ (n \in DOMAIN store') = (n \in DOMAIN store)
    /\ n \in DOMAIN store => store'[n] = store[n]

\* C9: requests served by rootHandler, viewHandler, editHandler or rejected by
\* the validator (or answered by the mux) leave every file as it was; a step of
\* a save for title T leaves every file but T's as it was.
C9_Frame ==
    [][/\ \A c \in Clients :
            /\ (rec'[c] # rec[c] /\ rec'[c].handler # "save") => store' = store
            /\ Served(c, "save") =>
                   \A n \in (DOMAIN store \cup DOMAIN store') \ {rec'[c].title} : SameFile(n)
       /\ store' # store => \E c \in Clients : Served(c, "save")]_vars

\* C9 witness: title a was saved while FrontPage kept the body saved before,
\* and a missing page was viewed without coming into being
C9_Witness ==
    /\ FrontPage \in DOMAIN store /\ store[FrontPage] = BodyA
    /\ rec["c2"].pc = "done" /\ rec["c2"].handler = "save" /\ rec["c2"].title = FrontPage
    /\ rec["c1"].handler = "save" /\ rec["c1"].title = TitleA /\ rec["c1"].pc = "written"
    /\ store[TitleA] = BodyB

\* C10, on states: every 302 of a handler names a path validPath accepts, and a
\* request reached through two redirects is not answered by a further redirect
RedirectsTerminate ==
    \A c \in Clients :
        rec[c].w.status = 302 =>
            /\ validPath(rec[c].w.location)
            /\ rec[c].hops < 2
            /\ rec[c].handler \in {"root", "view", "save"}
            /\ rec[c].handler = "root" => rec[c].w.location = RootTarget
            /\ rec[c].handler = "view" => rec[c].w.location = EditPrefix \o rec[c].title
            /\ rec[c].handler = "save" => rec[c].w.location = ViewPrefix \o rec[c].title

\* C10, on steps: a view of a title that was saved successfully does not redirect
SavedNeverRedirects ==
    \A c \in Clients :
        (Served(c, "view") /\ rec'[c].title \in savedOk) => rec'[c].w.status # 302

\* C10: redirect targets are valid paths; following redirects from any request,
\* whatever the other client does meanwhile, reaches a response that is not a
\* redirect after at most two of them (root -> view -> edit, save -> view); and
\* once a title was saved successfully a view of it never redirects to edit.
C10_RedirectsTerminate ==
    []RedirectsTerminate /\ [][SavedNeverRedirects]_vars

\* C10 witness: the chain / -> /view/FrontPage -> /edit/FrontPage ended in the form
C10_Witness ==
    /\ rec["c1"].hops = 2
    /\ rec["c1"].handler = "edit"
    /\ rec["c1"].title = FrontPage
    /\ rec["c1"].w.status = 200

====
